---- MODULE Spec2Model ----
(***************************************************************************)
(* Hybrid images (Project1_Hybrid_Images/hybrid.py): the Gaussian kernel   *)
(* generator, the zero-padded 2D cross-correlation, the convolution        *)
(* wrapper, the low-pass / high-pass filters and create_hybrid_image.      *)
(*                                                                         *)
(* Numbers.  An ndarray is a record [v, d, dtype]: v is the nested         *)
(* sequence of integer numerators (rows, columns, channels), d > 0 the     *)
(* denominator all cells share, so cell (i,j,k) holds v[i][j][k] / d.  A   *)
(* kernel is [w, d] in the same way (rows, columns).  Arithmetic is exact  *)
(* rational arithmetic: the rounding of float32 / float64 is not modelled. *)
(* sigma is given by the rational q = a/b = exp(-1/(2 sigma^2)), 0 < q < 1,*)
(* so that exp(-r/(2 sigma^2)) = q^r exactly for every integer r >= 0.     *)
(***************************************************************************)
EXTENDS Integers, Sequences, FiniteSets, TLC

VARIABLES img, op, args, ret,
          heap, pc, loc, call,
          padded_img, kernel, result, todo, workers

vars == <<img, op, args, ret, heap, pc, loc, call,
          padded_img, kernel, result, todo, workers>>

libVars == <<img, op, args, ret>>
hybVars == <<heap, pc, loc, call>>
parVars == <<padded_img, kernel, result, todo, workers>>

(* ------------------------------ bounds -------------------------------- *)
MaxH == 3
MaxW == 3
MaxK == 3
Full == 255

(* ----------------------------- arithmetic ----------------------------- *)
RECURSIVE Pow(_, _)
Pow(a, n) == IF n = 0 THEN 1 ELSE a * Pow(a, n - 1)

RECURSIVE Gcd(_, _)
Gcd(a, b) == IF b = 0 THEN a ELSE Gcd(b, a % b)

Lcm(a, b) == (a \div Gcd(a, b)) * b

RECURSIVE SumSeq(_)
SumSeq(s) == IF s = <<>> THEN 0 ELSE Head(s) + SumSeq(Tail(s))

Reverse(s) == [i \in 1..Len(s) |-> s[Len(s) + 1 - i]]

Rows(v) == Len(v)
Cols(v) == Len(v[1])
Chans(v) == Len(v[1][1])
Shape(a) == <<Rows(a.v), Cols(a.v), Chans(a.v)>>

(* ------------------- gaussian_blur_kernel_2d (6-28) -------------------- *)
\* np.exp(-r / (2 * sigma ** 2)) for the integer r, as a numerator over
\* sigma.b ^ top (top >= r): q^r = a^r * b^(top - r) / b^top.
NpExpNeg(sigma, r, top) == Pow(sigma.a, r) * Pow(sigma.b, top - r)

\* np.sum(kernel): the sum of all the cells, a rational [n, d].
NpSum(k) == [n |-> SumSeq([i \in 1..Len(k.w) |-> SumSeq(k.w[i])]), d |-> k.d]

\* kernel / s for the rational s: w/d / (s.n/s.d) = w * s.d / (d * s.n),
\* with the common factor of s.d and d cancelled.
KernelDiv(k, s) ==
    LET g == Gcd(s.d, k.d)
    IN  [w |-> [i \in 1..Len(k.w) |-> [j \in 1..Len(k.w[i]) |->
                   k.w[i][j] * (s.d \div g)]],
         d |-> (k.d \div g) * s.n]

center_off_by_one(n) == n \div 2 + 1

center_of(n) == n \div 2

GaussianCells(sigma, height, width) ==
    LET center_x == center_of(width)
        center_y == center_of(height)
        top == center_y * center_y + center_x * center_x
    IN  [w |-> [i \in 1..height |-> [j \in 1..width |->
                   NpExpNeg(sigma,
                            ((i - 1) - center_y) * ((i - 1) - center_y)
                              + ((j - 1) - center_x) * ((j - 1) - center_x),
                            top)]],
         d |-> Pow(sigma.b, top)]

gaussian_not_normalized(sigma, height, width) == GaussianCells(sigma, height, width)

gaussian_blur_kernel_2d(sigma, height, width) ==
    LET cells == GaussianCells(sigma, height, width)
    IN  KernelDiv(cells, NpSum(cells))

(* --------------------- cross_correlation_2d (30-64) -------------------- *)
\* np.pad(img, ((ph, ph), (pw, pw), (0, 0)), mode='constant', constant_values=0)
NpPad(v, ph, pw) ==
    LET H == Rows(v)
        W == Cols(v)
        zeroPx == [k \in 1..Chans(v) |-> 0]
    IN  [i \in 1..(H + 2 * ph) |-> [j \in 1..(W + 2 * pw) |->
            IF i <= ph \/ i > ph + H \/ j <= pw \/ j > pw + W
            THEN zeroPx
            ELSE v[i - ph][j - pw]]]

\* the patch multiplied by the kernel turned by 180 degrees
PatchSumFlipped(p, w, i, j, k) ==
    SumSeq([u \in 1..Len(w) |->
        SumSeq([x \in 1..Len(w[u]) |->
            p[i + u - 1][j + x - 1][k] * w[Len(w) + 1 - u][Len(w[u]) + 1 - x]])])

\* np.sum(padded_img[i:i+m, j:j+n, k] * kernel) for the 1-based cell (i,j,k)
PatchSum(p, w, i, j, k) ==
    SumSeq([u \in 1..Len(w) |->
        SumSeq([x \in 1..Len(w[u]) |-> p[i + u - 1][j + x - 1][k] * w[u][x]])])

cross_correlation_2d(image, kern) ==
    LET pad_height == Len(kern.w) \div 2
        pad_width == Len(kern.w[1]) \div 2
        p == NpPad(image.v, pad_height, pad_width)
    IN  [v |-> [i \in 1..Rows(image.v) |-> [j \in 1..Cols(image.v) |->
                  [k \in 1..Chans(image.v) |-> PatchSum(p, kern.w, i, j, k)]]],
         d |-> image.d * kern.d,
         dtype |-> "float64"]

(* -------------------------- convolve_2d (66-82) ------------------------ *)
\* np.flipud(kernel): only the rows reversed
NpFlipRowsOnly(k) == [w |-> Reverse(k.w), d |-> k.d]

\* np.flip(kernel): every axis reversed
NpFlip(k) == [w |-> Reverse([i \in 1..Len(k.w) |-> Reverse(k.w[i])]), d |-> k.d]

convolve_2d(image, kern) == cross_correlation_2d(image, NpFlip(kern))

(* ------------------- low_pass, high_pass (85-111) ---------------------- *)
low_pass(image, sigma, size) ==
    cross_correlation_2d(image, gaussian_blur_kernel_2d(sigma, size, size))

\* a - b cell by cell, over the least common denominator
NpSub(a, b) ==
    LET L == Lcm(a.d, b.d)
    IN  [v |-> [i \in 1..Rows(a.v) |-> [j \in 1..Cols(a.v) |->
                  [k \in 1..Chans(a.v) |->
                     a.v[i][j][k] * (L \div a.d) - b.v[i][j][k] * (L \div b.d)]]],
         d |-> L,
         dtype |-> "float64"]

high_pass_swapped(image, sigma, size) == NpSub(low_pass(image, sigma, size), image)

high_pass(image, sigma, size) == NpSub(image, low_pass(image, sigma, size))

\* numpy broadcasting: two lengths agree when equal or when one of them is 1
Broadcastable(s, t) == \A x \in 1..3 : s[x] = t[x] \/ s[x] = 1 \/ t[x] = 1
BroadcastShape(s, t) == [x \in 1..3 |-> IF s[x] = 1 THEN t[x] ELSE s[x]]
Bc(n, i) == IF n = 1 THEN 1 ELSE i

\* a + b cell by cell (broadcast), over the least common denominator
NpAdd(a, b) ==
    LET L == Lcm(a.d, b.d)
        s == BroadcastShape(Shape(a), Shape(b))
    IN  [v |-> [i \in 1..s[1] |-> [j \in 1..s[2] |-> [k \in 1..s[3] |->
                  a.v[Bc(Rows(a.v), i)][Bc(Cols(a.v), j)][Bc(Chans(a.v), k)] * (L \div a.d)
                  + b.v[Bc(Rows(b.v), i)][Bc(Cols(b.v), j)][Bc(Chans(b.v), k)] * (L \div b.d)]]],
         d |-> L,
         dtype |-> "float64"]

(* ------------------------------ inputs --------------------------------- *)
\* sigma with exp(-1/(2 sigma^2)) = a/b
SigmaSet == {[a |-> 1, b |-> 2], [a |-> 2, b |-> 3], [a |-> 1, b |-> 3]}

ChanSet == {1, 3}
ShapeSet == {<<h, w, c>> : h \in 1..MaxH, w \in 1..MaxW, c \in ChanSet}

MkImage(s, f(_, _, _), d, dtype) ==
    [v |-> [i \in 1..s[1] |-> [j \in 1..s[2] |-> [k \in 1..s[3] |-> f(i, j, k)]]],
     d |-> d, dtype |-> dtype]

ConstImage(s, c) == LET f(i, j, k) == c IN MkImage(s, f, 1, "uint8")
RampImage(s) ==
    LET f(i, j, k) == (37 * i + 11 * j + 101 * k) % (Full + 1)
    IN  MkImage(s, f, 1, "uint8")
ImpulseImage(s, p) ==
    LET f(i, j, k) == IF <<i, j, k>> = p THEN Full ELSE 0
    IN  MkImage(s, f, 1, "uint8")
CheckerImage(s) ==
    LET f(i, j, k) == IF (i + j) % 2 = 0 THEN Full ELSE 0
    IN  MkImage(s, f, 1, "uint8")
\* a float32 image with samples in quarters, some outside [0,1]
FloatImage(s) ==
    LET f(i, j, k) == ((3 * i + 5 * j + 2 * k) % 7) - 1
    IN  MkImage(s, f, 4, "float32")

ImagesOf(s) ==
    {ConstImage(s, c) : c \in {0, 100, Full}}
      \cup {RampImage(s), FloatImage(s)}
      \cup {ImpulseImage(s, p) : p \in (1..s[1]) \X (1..s[2]) \X (1..s[3])}

ImageSet == UNION {ImagesOf(s) : s \in ShapeSet}

\* kernels of every shape up to MaxK x MaxK, odd and even, symmetric or not
RampKernel(m, n) == [w |-> [u \in 1..m |-> [x \in 1..n |-> (u - 1) * n + x]], d |-> 1]
OnesKernel(m, n) == [w |-> [u \in 1..m |-> [x \in 1..n |-> 1]], d |-> 1]
EdgeKernel(m, n) ==
    [w |-> [u \in 1..m |-> [x \in 1..n |-> IF u = 1 /\ x = n THEN 2 ELSE x - u]],
     d |-> 1]
KernelSet ==
    UNION {{RampKernel(m, n), OnesKernel(m, n), EdgeKernel(m, n)} :
             m \in 1..MaxK, n \in 1..MaxK}

Returned(x) == [status |-> "returned", val |-> x]
NoArgs == [none |-> TRUE]
Idle == [status |-> "none"]

(* ---------------------- the filter library calls ----------------------- *)
hybIdle == heap = <<>> /\ pc = "off" /\ loc = NoArgs /\ call = NoArgs
parIdle == padded_img = <<>> /\ kernel = <<>> /\ result = <<>>
               /\ todo = {} /\ workers = <<>>

Init ==
    /\ img \in ImageSet
    /\ op = "none" /\ args = NoArgs /\ ret = Idle
    /\ hybIdle /\ parIdle

CallGaussian ==
    /\ op = "none"
    /\ \E sigma \in SigmaSet, height \in 1..MaxK, width \in 1..MaxK :
         /\ args' = [sigma |-> sigma, height |-> height, width |-> width]
         /\ ret' = Returned(gaussian_blur_kernel_2d(sigma, height, width))
    /\ op' = "gaussian_blur_kernel_2d"
    /\ UNCHANGED <<img, hybVars, parVars>>

CallCorrelate ==
    /\ op = "none"
    /\ \E kern \in KernelSet :
         /\ args' = [kernel |-> kern]
         /\ ret' = Returned(cross_correlation_2d(img, kern))
    /\ op' = "cross_correlation_2d"
    /\ UNCHANGED <<img, hybVars, parVars>>

CallConvolve ==
    /\ op = "none"
    /\ \E kern \in KernelSet :
         /\ args' = [kernel |-> kern]
         /\ ret' = Returned(convolve_2d(img, kern))
    /\ op' = "convolve_2d"
    /\ UNCHANGED <<img, hybVars, parVars>>

CallLowPass ==
    /\ op = "none"
    /\ \E sigma \in SigmaSet, size \in 1..MaxK :
         /\ args' = [sigma |-> sigma, size |-> size]
         /\ ret' = Returned(low_pass(img, sigma, size))
    /\ op' = "low_pass"
    /\ UNCHANGED <<img, hybVars, parVars>>

CallHighPass ==
    /\ op = "none"
    /\ \E sigma \in SigmaSet, size \in 1..MaxK :
         /\ args' = [sigma |-> sigma, size |-> size]
         /\ ret' = Returned(high_pass(img, sigma, size))
    /\ op' = "high_pass"
    /\ UNCHANGED <<img, hybVars, parVars>>

Next == CallGaussian \/ CallCorrelate \/ CallConvolve \/ CallLowPass \/ CallHighPass

Spec == Init /\ [][Next]_vars

(* -------------------- create_hybrid_image (113-137) -------------------- *)
(* The arrays live in a heap (a sequence, an array's identity is its index) *)
(* so that rebinding a local name and writing into an array in place are    *)
(* told apart.  call holds the arguments: the two array references, the     *)
(* parameters, and the contents the caller's arrays had when the call       *)
(* started.  loc holds the function's local names.  Arrays that no name     *)
(* refers to any more stay in the heap; nothing reads them.                 *)
HybMaxW == 3
HybHeights == {1, 2}
HybShapeSet == {<<h, w, 1>> : h \in HybHeights, w \in 1..HybMaxW}
HybImageSet ==
    UNION {{CheckerImage(s), FloatImage(s), ConstImage(s, Full)} : s \in HybShapeSet}

\* (high_low, sigma, size) as the caller may give them
FilterChoices ==
    {[high_low |-> "low",  sigma |-> [a |-> 1, b |-> 2], size |-> 3],
     [high_low |-> "HIGH", sigma |-> [a |-> 2, b |-> 3], size |-> 3],
     [high_low |-> "Low",  sigma |-> [a |-> 1, b |-> 2], size |-> 1]}
MixinSet == {[n |-> 0, d |-> 1], [n |-> 1, d |-> 4], [n |-> 1, d |-> 2], [n |-> 1, d |-> 1]}
ScaleSet == {[n |-> 1, d |-> 1], [n |-> 6, d |-> 5]}

\* str.lower() on the mode strings in use
StrLower(s) ==
    CASE s = "LOW" -> "low" [] s = "Low" -> "low"
      [] s = "HIGH" -> "high" [] s = "High" -> "high"
      [] OTHER -> s

Abs(x) == IF x < 0 THEN -x ELSE x

\* a * s for the rational scalar s = [n, d], the common factor of s.n and a.d
\* cancelled
NpMulScalar(a, s) ==
    LET g == Gcd(Abs(s.n), a.d)
    IN  [v |-> [i \in 1..Rows(a.v) |-> [j \in 1..Cols(a.v) |->
                  [k \in 1..Chans(a.v) |-> a.v[i][j][k] * (s.n \div g)]]],
         d |-> (a.d \div g) * s.d,
         dtype |-> IF a.dtype = "uint8" THEN "float64" ELSE a.dtype]

\* img.astype(np.float32) / 255.0
NormalizeUint8(a) == [v |-> a.v, d |-> a.d * Full, dtype |-> "float32"]

\* the clip left out
NpClipNone(a) == a

\* a.clip(0, 255)
NpClip(a) ==
    [a EXCEPT !.v = [i \in 1..Rows(a.v) |-> [j \in 1..Cols(a.v) |->
        [k \in 1..Chans(a.v) |->
            IF a.v[i][j][k] < 0 THEN 0
            ELSE IF a.v[i][j][k] > Full * a.d THEN Full * a.d
            ELSE a.v[i][j][k]]]]]

\* a.astype(np.uint8) of values already in [0, 255]: the fraction is cut off
AsTypeUint8(a) ==
    [v |-> [i \in 1..Rows(a.v) |-> [j \in 1..Cols(a.v) |->
              [k \in 1..Chans(a.v) |-> a.v[i][j][k] \div a.d]]],
     d |-> 1, dtype |-> "uint8"]

Alloc(h, a) == [heap |-> Append(h, a), ref |-> Len(h) + 1]

\* the filter writes its result over its input array
ApplyFilterInPlace(h, ref, high_low, sigma, size) ==
    [heap |-> [h EXCEPT ![ref] = IF high_low = "low"
                                 THEN low_pass(h[ref], sigma, size)
                                 ELSE high_pass(h[ref], sigma, size)],
     ref |-> ref]

\* lines 124-127 / 129-132: the result of either filter is a new array
\* (np.zeros_like in cross_correlation_2d, img - low in high_pass)
ApplyFilter(h, ref, high_low, sigma, size) ==
    Alloc(h, IF high_low = "low"
             THEN low_pass(h[ref], sigma, size)
             ELSE high_pass(h[ref], sigma, size))

OneMinus(r) == [n |-> r.d - r.n, d |-> r.d]

Raised(e) == [status |-> "raised", error |-> e]

libIdle == img = <<>> /\ op = "off" /\ args = NoArgs

InitHybrid ==
    /\ \E a \in HybImageSet, b \in HybImageSet, same \in BOOLEAN,
          f1 \in FilterChoices, f2 \in FilterChoices,
          mixin_ratio \in MixinSet, scale_factor \in ScaleSet :
         /\ same => a = b
         /\ heap = IF same THEN <<a>> ELSE <<a, b>>
         /\ call = [img1 |-> 1, img2 |-> IF same THEN 1 ELSE 2,
                    orig1 |-> a, orig2 |-> b,
                    sigma1 |-> f1.sigma, size1 |-> f1.size, high_low1 |-> f1.high_low,
                    sigma2 |-> f2.sigma, size2 |-> f2.size, high_low2 |-> f2.high_low,
                    mixin_ratio |-> mixin_ratio, scale_factor |-> scale_factor]
         /\ loc = [img1 |-> 1, img2 |-> IF same THEN 1 ELSE 2,
                   high_low1 |-> f1.high_low, high_low2 |-> f2.high_low,
                   hybrid_img |-> 0]
    /\ pc = "lower"
    /\ ret = Idle
    /\ libIdle /\ parIdle

\* 117-118
Lower ==
    /\ pc = "lower"
    /\ loc' = [loc EXCEPT !.high_low1 = StrLower(loc.high_low1),
                          !.high_low2 = StrLower(loc.high_low2)]
    /\ pc' = "normalize"
    /\ UNCHANGED <<heap, call, ret, img, op, args, parVars>>

\* 120-122: the dtype of img1 alone decides, and then both are converted
Normalize ==
    /\ pc = "normalize"
    /\ IF heap[loc.img1].dtype = "uint8"
       THEN LET n1 == Alloc(heap, NormalizeUint8(heap[loc.img1]))
                n2 == Alloc(n1.heap, NormalizeUint8(heap[loc.img2]))
            IN  /\ heap' = n2.heap
                /\ loc' = [loc EXCEPT !.img1 = n1.ref, !.img2 = n2.ref]
       ELSE UNCHANGED <<heap, loc>>
    /\ pc' = "filter1"
    /\ UNCHANGED <<call, ret, img, op, args, parVars>>

\* 124-127
Filter1 ==
    /\ pc = "filter1"
    /\ LET r == ApplyFilter(heap, loc.img1, loc.high_low1, call.sigma1, call.size1)
       IN  /\ heap' = r.heap
           /\ loc' = [loc EXCEPT !.img1 = r.ref]
    /\ pc' = "filter2"
    /\ UNCHANGED <<call, ret, img, op, args, parVars>>

\* 129-132
Filter2 ==
    /\ pc = "filter2"
    /\ LET r == ApplyFilter(heap, loc.img2, loc.high_low2, call.sigma2, call.size2)
       IN  /\ heap' = r.heap
           /\ loc' = [loc EXCEPT !.img2 = r.ref]
    /\ pc' = "scale1"
    /\ UNCHANGED <<call, ret, img, op, args, parVars>>

\* 134: img1 *= (1 - mixin_ratio), in place
Scale1 ==
    /\ pc = "scale1"
    /\ heap' = [heap EXCEPT ![loc.img1] =
                   NpMulScalar(heap[loc.img1], OneMinus(call.mixin_ratio))]
    /\ pc' = "scale2"
    /\ UNCHANGED <<loc, call, ret, img, op, args, parVars>>

\* 135: img2 *= mixin_ratio, in place
Scale2 ==
    /\ pc = "scale2"
    /\ heap' = [heap EXCEPT ![loc.img2] = NpMulScalar(heap[loc.img2], call.mixin_ratio)]
    /\ pc' = "combine"
    /\ UNCHANGED <<loc, call, ret, img, op, args, parVars>>

\* 136: hybrid_img = (img1 + img2) * scale_factor; numpy raises ValueError
\* when the two shapes cannot be broadcast together
Combine ==
    /\ pc = "combine"
    /\ IF Broadcastable(Shape(heap[loc.img1]), Shape(heap[loc.img2]))
       THEN LET r == Alloc(heap, NpMulScalar(NpAdd(heap[loc.img1], heap[loc.img2]),
                                             call.scale_factor))
            IN  /\ heap' = r.heap
                /\ loc' = [loc EXCEPT !.hybrid_img = r.ref]
                /\ pc' = "quantize"
                /\ ret' = ret
       ELSE /\ pc' = "raised"
            /\ ret' = Raised("ValueError")
            /\ UNCHANGED <<heap, loc>>
    /\ UNCHANGED <<call, img, op, args, parVars>>

\* 137: return (hybrid_img * 255).clip(0, 255).astype(np.uint8)
Quantize ==
    /\ pc = "quantize"
    /\ ret' = Returned(AsTypeUint8(NpClip(
                  NpMulScalar(heap[loc.hybrid_img], [n |-> Full, d |-> 1]))))
    /\ pc' = "returned"
    /\ UNCHANGED <<heap, loc, call, img, op, args, parVars>>

NextHybrid ==
    Lower \/ Normalize \/ Filter1 \/ Filter2 \/ Scale1 \/ Scale2 \/ Combine \/ Quantize

SpecHybrid == InitHybrid /\ [][NextHybrid]_vars

(* ------ cross_correlation_2d, its iterations in any order (52-64) ------- *)
(* The loop of lines 57-62 with its (i, j, k) iterations handed to workers: *)
(* a worker takes any iteration not yet taken and evaluates the right-hand  *)
(* side of line 62 from padded_img and kernel, and in a later step stores   *)
(* it into result[i, j, k].  Steps of different workers interleave freely.  *)
NWorkers == 2
ParImageSet ==
    {RampImage(<<2, 2, 1>>), FloatImage(<<1, 2, 3>>), ImpulseImage(<<2, 3, 1>>, <<1, 2, 1>>)}
ParKernelSet == {RampKernel(3, 3), EdgeKernel(1, 3), OnesKernel(3, 1)}

\* np.zeros_like(img, dtype=np.float64)
NpZerosLike(v) ==
    [i \in 1..Rows(v) |-> [j \in 1..Cols(v) |-> [k \in 1..Chans(v) |-> 0]]]

\* the whole pixel is overwritten, not only channel k
StoreWholePixel(res, c, x) ==
    [res EXCEPT ![c[1]][c[2]] = [k \in 1..Len(res[c[1]][c[2]]) |-> x]]

\* result[i, j, k] = x
StoreCell(res, c, x) == [res EXCEPT ![c[1]][c[2]][c[3]] = x]

WorkerIdle == [st |-> "idle"]

InitPar ==
    /\ img \in ParImageSet
    /\ \E kern \in ParKernelSet :
         /\ args = [kernel |-> kern]
         /\ kernel = kern.w
         /\ padded_img = NpPad(img.v, Len(kern.w) \div 2, Len(kern.w[1]) \div 2)
    /\ result = NpZerosLike(img.v)
    /\ todo = (1..Rows(img.v)) \X (1..Cols(img.v)) \X (1..Chans(img.v))
    /\ workers = [w \in 1..NWorkers |-> WorkerIdle]
    /\ op = "cross_correlation_2d_parallel" /\ ret = Idle
    /\ hybIdle

\* lines 61-62, right-hand side, for an iteration no worker has taken yet
Evaluate(w) ==
    /\ workers[w].st = "idle"
    /\ \E c \in todo :
         /\ todo' = todo \ {c}
         /\ workers' = [workers EXCEPT ![w] =
               [st |-> "evaluated", cell |-> c,
                sum |-> PatchSum(padded_img, kernel, c[1], c[2], c[3])]]
    /\ UNCHANGED <<padded_img, kernel, result, libVars, hybVars>>

\* line 62, the assignment
Store(w) ==
    /\ workers[w].st = "evaluated"
    /\ result' = StoreCell(result, workers[w].cell, workers[w].sum)
    /\ workers' = [workers EXCEPT ![w] = WorkerIdle]
    /\ UNCHANGED <<padded_img, kernel, todo, libVars, hybVars>>

\* line 64, after the join
Join ==
    /\ op = "cross_correlation_2d_parallel"
    /\ todo = {}
    /\ \A w \in 1..NWorkers : workers[w].st = "idle"
    /\ ret = Idle
    /\ ret' = Returned([v |-> result, d |-> img.d * args.kernel.d, dtype |-> "float64"])
    /\ UNCHANGED <<img, op, args, hybVars, parVars>>

NextPar == (\E w \in 1..NWorkers : Evaluate(w) \/ Store(w)) \/ Join

SpecPar == InitPar /\ [][NextPar]_vars

(* ------------------- properties of the filter library ------------------ *)
Odd(n) == n % 2 = 1
Cells(a) == (1..Rows(a.v)) \X (1..Cols(a.v)) \X (1..Chans(a.v))
At(a, c) == a.v[c[1]][c[2]][c[3]]
\* the cells of a and b hold the same rationals
SameValues(a, b) ==
    /\ Shape(a) = Shape(b)
    /\ \A c \in Cells(a) : At(a, c) * b.d = At(b, c) * a.d

\* image[r, c, k], 0 outside the image
ImageAt(image, r, c, k) ==
    IF r \in 1..Rows(image.v) /\ c \in 1..Cols(image.v) THEN image.v[r][c][k] ELSE 0

\* sum over the kernel cells (u,x) of K[u,x] * image[i+u-m//2, j+x-n//2, k]
\* (u, x counted from 0 there, from 1 here)
WeightedSum(image, kern, i, j, k) ==
    SumSeq([u \in 1..Len(kern.w) |-> SumSeq([x \in 1..Len(kern.w[u]) |->
        kern.w[u][x] * ImageAt(image, i + (u - 1) - (Len(kern.w) \div 2),
                                      j + (x - 1) - (Len(kern.w[u]) \div 2), k)])])

\* cell (i,j) is at least (ph, pw) away from every border
Interior(image, ph, pw, i, j) ==
    /\ i - ph >= 1 /\ i + ph <= Rows(image.v)
    /\ j - pw >= 1 /\ j + pw <= Cols(image.v)

\* the weighted sum of the window of the image itself, no padding involved
UnpaddedSum(image, kern, i, j, k) ==
    SumSeq([u \in 1..Len(kern.w) |-> SumSeq([x \in 1..Len(kern.w[u]) |->
        kern.w[u][x] * image.v[i + (u - 1) - (Len(kern.w) \div 2)]
                              [j + (x - 1) - (Len(kern.w[u]) \div 2)][k]])])

OddKernel(kern) == Odd(Len(kern.w)) /\ Odd(Len(kern.w[1]))

\* C1: cross_correlation_2d with an odd kernel returns an array of the image's
\* shape whose every cell is the sum of K[u,x] * image[i+u-m//2, j+x-n//2, k],
\* cells outside the image counting 0 and the kernel not flipped; a cell at
\* least (m//2, n//2) from every border is the unpadded sum of its window.
C1_CorrelationIsZeroPaddedWeightedSum ==
    (op = "cross_correlation_2d" /\ OddKernel(args.kernel)) =>
        /\ ret.status = "returned"
        /\ Shape(ret.val) = Shape(img)
        /\ ret.val.d = img.d * args.kernel.d
        /\ \A c \in Cells(img) :
              /\ At(ret.val, c) = WeightedSum(img, args.kernel, c[1], c[2], c[3])
              /\ Interior(img, Len(args.kernel.w) \div 2,
                          Len(args.kernel.w[1]) \div 2, c[1], c[2])
                   => At(ret.val, c) = UnpaddedSum(img, args.kernel, c[1], c[2], c[3])

\* a 3x3 image under the asymmetric 3x3 kernel: one interior cell, eight on
\* the border, and the result differs from that of the flipped kernel
C1_Witness ==
    /\ op = "cross_correlation_2d"
    /\ img = RampImage(<<3, 3, 1>>)
    /\ args.kernel = RampKernel(3, 3)
    /\ Interior(img, 1, 1, 2, 2)
    /\ ret.val # cross_correlation_2d(img, NpFlip(args.kernel))

\* flip(K)[i,j] = K[m-1-i, n-1-j]
FlipOf(kern) ==
    [w |-> [i \in 1..Len(kern.w) |-> [j \in 1..Len(kern.w[i]) |->
              kern.w[Len(kern.w) + 1 - i][Len(kern.w[i]) + 1 - j]]],
     d |-> kern.d]

\* C2: convolve_2d(image, K) is cross_correlation_2d(image, flip(K)) for every
\* K, asymmetric ones included, and is cross_correlation_2d(image, K) when
\* flip(K) = K.
C2_ConvolveIsCorrelateFlipped ==
    op = "convolve_2d" =>
        /\ ret.val = cross_correlation_2d(img, FlipOf(args.kernel))
        /\ FlipOf(args.kernel) = args.kernel
             => ret.val = cross_correlation_2d(img, args.kernel)

\* an asymmetric kernel, for which convolution and correlation differ
C2_Witness ==
    /\ op = "convolve_2d"
    /\ args.kernel = RampKernel(3, 3)
    /\ FlipOf(args.kernel) # args.kernel
    /\ img = RampImage(<<3, 3, 3>>)
    /\ ret.val # cross_correlation_2d(img, args.kernel)

\* C3: high_pass(image) + low_pass(image) = image in every cell, border cells
\* included, for an odd size.
C3_HighPlusLowIsImage ==
    (op = "high_pass" /\ Odd(args.size)) =>
        SameValues(NpAdd(ret.val, low_pass(img, args.sigma, args.size)), img)

\* a high pass that is not zero: a 3x3 kernel over a ramp
C3_Witness ==
    /\ op = "high_pass"
    /\ args.size = 3
    /\ img = RampImage(<<3, 3, 1>>)
    /\ \E c \in Cells(ret.val) : At(ret.val, c) # 0

IsConstant(image) == \A c \in Cells(image) : At(image, c) = image.v[1][1][1]
\* the cell c of a holds the same rational as the cell e of b
SameCell(a, c, b, e) == At(a, c) * b.d = At(b, e) * a.d

\* C4 as stated: low_pass of a constant image returns the constant in every
\* cell, the cells within size//2 of a border included.
C4_ConstantPreservedEverywhere ==
    (op = "low_pass" /\ Odd(args.size) /\ IsConstant(img)) =>
        \A c \in Cells(img) : SameCell(ret.val, c, img, c)

\* C4 amended: low_pass of a constant image returns the constant in every cell
\* at least size//2 away from every border; nearer a border the zero padding
\* enters the window.
C4_ConstantPreservedInInterior ==
    (op = "low_pass" /\ Odd(args.size) /\ IsConstant(img)) =>
        \A c \in Cells(img) :
            Interior(img, args.size \div 2, args.size \div 2, c[1], c[2])
                => SameCell(ret.val, c, img, c)

\* a constant 3x3 image of 100 under a 3x3 kernel: the centre keeps 100, the
\* corner does not
C4_Witness ==
    /\ op = "low_pass"
    /\ args.size = 3
    /\ img = ConstImage(<<3, 3, 1>>, 100)
    /\ Interior(img, 1, 1, 2, 2)
    /\ SameCell(ret.val, <<2, 2, 1>>, img, <<2, 2, 1>>)
    /\ ~SameCell(ret.val, <<1, 1, 1>>, img, <<1, 1, 1>>)

\* C6: a kernel with an even height or width is rejected (InvalidKernelShape)
\* by gaussian_blur_kernel_2d and by cross_correlation_2d; no array comes back.
C6_EvenKernelRejected ==
    /\ (op = "gaussian_blur_kernel_2d" /\ ~(Odd(args.height) /\ Odd(args.width)))
          => ret.status = "raised"
    /\ (op = "cross_correlation_2d" /\ ~OddKernel(args.kernel))
          => ret.status = "raised"

\* C7: for odd height and width the kernel's weights are proportional to
\* exp(-((i-h//2)^2 + (j-w//2)^2) / (2 sigma^2)), they sum to 1, and for
\* h = w the kernel is unchanged by a turn of 180 degrees.
C7_GaussianKernel ==
    (op = "gaussian_blur_kernel_2d" /\ Odd(args.height) /\ Odd(args.width)) =>
        LET K == ret.val
            cy == args.height \div 2
            cx == args.width \div 2
            r(i, j) == (i - 1 - cy) * (i - 1 - cy) + (j - 1 - cx) * (j - 1 - cx)
        IN  /\ Len(K.w) = args.height
            /\ \A i \in 1..args.height : Len(K.w[i]) = args.width
            /\ \A i \in 1..args.height, j \in 1..args.width :
                  /\ K.w[i][j] > 0
                  \* K[i,j] / K[cy,cx] = (a/b)^r
                  /\ K.w[i][j] * Pow(args.sigma.b, r(i, j))
                        = K.w[cy + 1][cx + 1] * Pow(args.sigma.a, r(i, j))
            /\ NpSum(K).n = NpSum(K).d
            /\ args.height = args.width =>
                  \A i \in 1..args.height, j \in 1..args.width :
                      K.w[i][j] = K.w[args.height + 1 - i][args.width + 1 - j]

\* a 3x3 kernel whose corner weighs less than its centre
C7_Witness ==
    /\ op = "gaussian_blur_kernel_2d"
    /\ args.height = 3 /\ args.width = 3
    /\ ret.val.w[1][1] < ret.val.w[2][2]
    /\ NpSum(ret.val).n = NpSum(ret.val).d

(* ------------------- properties of create_hybrid_image ------------------ *)
HWDiffer ==
    \/ Rows(call.orig1.v) # Rows(call.orig2.v)
    \/ Cols(call.orig1.v) # Cols(call.orig2.v)

\* C5: with two images whose (height, width) differ the call ends in a
\* ShapeMismatch rejection before either filter is applied; it never reaches
\* a filtering step's result and never returns an image.
C5_MismatchRejectedBeforeFiltering ==
    (pc # "off" /\ HWDiffer) =>
        /\ pc \in {"lower", "normalize", "filter1", "raised"}
        /\ pc = "raised" => ret = Raised("ShapeMismatch")

\* C8: during and after a call the caller's two arrays hold the values they
\* held when the call started; the in-place scalings of lines 134-135 write
\* only into arrays made inside the call.
C8_CallerArraysUntouched ==
    pc # "off" =>
        /\ heap[call.img1] = call.orig1
        /\ heap[call.img2] = call.orig2
        /\ pc \in {"combine", "quantize", "returned", "raised"} =>
              /\ loc.img1 \notin {call.img1, call.img2}
              /\ loc.img2 \notin {call.img1, call.img2}
              /\ loc.img1 # loc.img2

\* a floating-point input (no copy made by the normalisation), high-passed,
\* whose filtered array was then scaled in place by 3/4
C8_Witness ==
    /\ pc = "returned"
    /\ call.orig1.dtype = "float32"
    /\ call.high_low1 = "HIGH"
    /\ call.mixin_ratio = [n |-> 1, d |-> 4]
    /\ heap[loc.img1] # high_pass(call.orig1, call.sigma1, call.size1)
    /\ heap[call.img1] = call.orig1

\* rationals [n, d], d > 0, in lowest terms
RNorm(r) ==
    LET g == Gcd(Abs(r.n), r.d) IN [n |-> r.n \div g, d |-> r.d \div g]
RMul(x, y) ==
    LET p == RNorm([n |-> x.n, d |-> y.d])
        q == RNorm([n |-> y.n, d |-> x.d])
    IN  RNorm([n |-> p.n * q.n, d |-> p.d * q.d])
RAdd(x, y) ==
    LET L == Lcm(x.d, y.d)
    IN  RNorm([n |-> x.n * (L \div x.d) + y.n * (L \div y.d), d |-> L])
CellValue(a, c) == RNorm([n |-> At(a, c), d |-> a.d])

\* clip(x, 0, 255) cut down to an integer
ClipTrunc(x) ==
    IF x.n <= 0 THEN 0 ELSE IF x.n >= Full * x.d THEN Full ELSE x.n \div x.d

IsLow(mode) == mode \in {"low", "Low", "LOW"}
\* both images are divided by 255 when the input representation, which the
\* code reads off img1, is 8-bit unsigned
Normalized(a) ==
    IF call.orig1.dtype = "uint8" THEN [a EXCEPT !.d = a.d * Full] ELSE a
Filtered(a, mode, sigma, size) ==
    IF IsLow(mode) THEN low_pass(Normalized(a), sigma, size)
    ELSE high_pass(Normalized(a), sigma, size)

\* 255 * scale_factor * ((1 - mixin_ratio) * F1(img1) + mixin_ratio * F2(img2))
\* in the cell c
Blend(c) ==
    LET f1 == Filtered(call.orig1, call.high_low1, call.sigma1, call.size1)
        f2 == Filtered(call.orig2, call.high_low2, call.sigma2, call.size2)
        one == [n |-> 1, d |-> 1]
        rest == RAdd(one, [n |-> -call.mixin_ratio.n, d |-> call.mixin_ratio.d])
    IN  RMul([n |-> Full, d |-> 1],
             RMul(call.scale_factor,
                  RAdd(RMul(rest, CellValue(f1, c)),
                       RMul(call.mixin_ratio, CellValue(f2, c)))))

\* C9: the returned image holds, in every cell,
\* clip(255 * scale_factor * ((1 - mixin_ratio) * F1(img1) + mixin_ratio * F2(img2)), 0, 255)
\* cut down to an 8-bit unsigned integer, the images divided by 255 first when
\* the input is 8-bit unsigned and Fi chosen by each image's own mode, sigma
\* and size; every sample returned lies in [0, 255].
C9_HybridFormulaAndRange ==
    pc = "returned" =>
        /\ ret.status = "returned"
        /\ ret.val.dtype = "uint8" /\ ret.val.d = 1
        /\ \A c \in Cells(ret.val) : At(ret.val, c) \in 0..Full
        /\ Shape(call.orig1) = Shape(call.orig2) =>
              /\ Shape(ret.val) = Shape(call.orig1)
              /\ \A c \in Cells(ret.val) : At(ret.val, c) = ClipTrunc(Blend(c))

\* 8-bit inputs of one shape, one low-passed and one high-passed, where one
\* cell is clipped at 255, one at 0 and one lies strictly between
C9_Witness ==
    /\ pc = "returned"
    /\ call.orig1.dtype = "uint8" /\ call.orig2.dtype = "uint8"
    /\ Shape(call.orig1) = Shape(call.orig2)
    /\ IsLow(call.high_low1) /\ ~IsLow(call.high_low2)
    /\ \E c \in Cells(ret.val) : Blend(c).n > Full * Blend(c).d /\ At(ret.val, c) = Full
    /\ \E c \in Cells(ret.val) : Blend(c).n < 0 /\ At(ret.val, c) = 0
    /\ \E c \in Cells(ret.val) : At(ret.val, c) \in 1..(Full - 1)

(* --------------- properties of the parallel correlation ----------------- *)
InFlight == {workers[w].cell : w \in {x \in 1..NWorkers : workers[x].st = "evaluated"}}
Stored == Cells(img) \ (todo \cup InFlight)

\* C10: an iteration reads only the padded input and the kernel, which are
\* never written after the padding, and writes only its own cell; so in any
\* order and interleaving of the iterations every stored cell holds the value
\* the sequential loop gives it, every other cell is still untouched, and the
\* array returned after the join is the sequential one.
C10_AnyOrderGivesSequentialResult ==
    op = "cross_correlation_2d_parallel" =>
        LET seq == cross_correlation_2d(img, args.kernel)
        IN  /\ padded_img = NpPad(img.v, Len(args.kernel.w) \div 2,
                                  Len(args.kernel.w[1]) \div 2)
            /\ kernel = args.kernel.w
            /\ \A c \in Stored : result[c[1]][c[2]][c[3]] = At(seq, c)
            /\ \A c \in Cells(img) \ Stored : result[c[1]][c[2]][c[3]] = 0
            /\ ret # Idle => ret = Returned(seq)

\* out of order: the last cell of the sequential loop is already stored while
\* the first is still held, evaluated and unstored, by another worker
C10_Witness ==
    /\ op = "cross_correlation_2d_parallel"
    /\ img = RampImage(<<2, 2, 1>>)
    /\ args.kernel = RampKernel(3, 3)
    /\ <<2, 2, 1>> \in Stored
    /\ <<1, 1, 1>> \in InFlight
    /\ result[2][2][1] # 0
    /\ result[1][1][1] = 0

====
